---- MODULE Spec2Model ----
(***************************************************************************)
(* hono-netdi: the request-scoped lifecycle of a netdi service scope in a  *)
(* Hono middleware chain.                                                  *)
(*                                                                         *)
(*   injectServices(serviceProvider)  src/src/index.ts:52-64               *)
(*   useService(c, serviceType)       src/src/index.ts:104-118             *)
(*                                                                         *)
(* A request runs a chain of nBinders handlers returned by injectServices  *)
(* followed by the route.  Chain element k of request r has the status     *)
(* st[r][k]; the route is element nBinders + 1.  JavaScript runs the code  *)
(* between two awaits without interruption, so one action is one such run. *)
(***************************************************************************)
EXTENDS Naturals, Sequences, FiniteSets

\* ---- bounds ----------------------------------------------------------
\* requests handled concurrently by one application
MaxRequests == 2
\* handlers of injectServices installed in the chain (app.use calls)
MaxBinders == 3
\* successful resolutions one route makes
MaxUse == 2
\* invocations of the bound handler in one run: nRequests * nBinders
MaxInvocations == 3

AllRequests == 1..MaxRequests
Positions == 1..(MaxBinders + 1)

\* ---- values ------------------------------------------------------------
\* What c.get('serviceScope') can yield: undefined (nothing was set), a
\* falsy value that was set, a plain object, or a ServiceScope, which is
\* named by its index in scopes.
Absent == [kind |-> "absent", id |-> 0]
Null == [kind |-> "null", id |-> 0]
Obj == [kind |-> "object", id |-> 0]
Scope(s) == [kind |-> "scope", id |-> s]
NoScope == 0
\* The route has not called useService yet.
NoCall ==
  [id |-> "", slot |-> Absent, live |-> FALSE, on |-> 0, outcome |-> "none",
   inst |-> 0]

\* Service identifiers and the lifetime each was registered with.
Ids == {"S", "U"}
Lifetime(id) ==
  CASE id = "S" -> "scoped"
    [] id = "T" -> "transient"
    [] OTHER -> "unregistered"

\* Failures, by identity.
NotFoundError == "Service scope not found in context"
NotInstanceError == "Service scope is not an instance of ServiceScope"
ResolutionError == "ResolutionError"
RouteError == "RouteError"
CreateScopeError == "CreateScopeError"
NullProviderError == "TypeError"
DisposeError == "DisposeError"
DisposedError == "DisposedError"
Errors == {NotFoundError, NotInstanceError, ResolutionError, RouteError,
           CreateScopeError, NullProviderError, DisposeError, DisposedError}
Settled == {"ok"} \cup Errors

VARIABLES
  nRequests,    \* how many requests the application receives
  nBinders,     \* how many injectServices handlers the application installed
  provider,     \* the argument of injectServices: "provider" or "null"
  disposeAsync, \* whether the container's scope.dispose() returns a promise
  disposedResolves, \* whether the provider of a disposed scope still resolves
  st,           \* st[r][k]: status of chain element k of request r
  scopeVar,     \* scopeVar[r][k]: the local const scope of invocation k of r
  slot,         \* slot[r]: what the context of r holds under 'serviceScope'
  last,         \* last[r]: what the latest useService call of r's route did
  got,          \* got[r]: the instances useService returned to r's route
  scopes,       \* the scopes the root provider created, in creation order
  nextInst      \* the next instance the container constructs

vars == <<nRequests, nBinders, provider, disposeAsync, disposedResolves, st, scopeVar, slot, last, got,
          scopes, nextInst>>

config == <<nRequests, nBinders, provider, disposeAsync, disposedResolves>>

Requests == 1..nRequests
RoutePos == nBinders + 1
Binders == 1..nBinders

\* ---- the container (external collaborator @stevanfreeborn/netdi) --------
NewScope(r, k) ==
  [owner |-> <<r, k>>, state |-> "active", disposeCalls |-> 0,
   cache |-> 0]

\* IServiceProvider.createScope(): a scope nobody holds yet.
createScope(r, k) == Append(scopes, NewScope(r, k))

\* scope instanceof ServiceScope
IsServiceScope(v) == v.kind = "scope" /\ v.id \in 1..Len(scopes)

\* v is a scope on which dispose has not been called: SCOPE_ACTIVE.
Live(v) == IsServiceScope(v) /\ scopes[v.id].state = "active"

\* scope.serviceProvider.getService(id): the outcome, the instance, and the
\* container's state after it.  What the provider of a scope does once
\* dispose has been called on the scope is the container's choice
\* (disposedResolves): it resolves as before or refuses.
getService(s, id) ==
  CASE scopes[s].state # "active" /\ ~disposedResolves ->
         [outcome |-> DisposedError, inst |-> 0, scopes |-> scopes,
          nextInst |-> nextInst]
    [] Lifetime(id) = "unregistered" ->
         [outcome |-> ResolutionError, inst |-> 0, scopes |-> scopes,
          nextInst |-> nextInst]
    [] Lifetime(id) = "transient" ->
         [outcome |-> "ok", inst |-> nextInst, scopes |-> scopes,
          nextInst |-> nextInst + 1]
    [] Lifetime(id) = "scoped" /\ scopes[s].cache # 0 ->
         [outcome |-> "ok", inst |-> scopes[s].cache, scopes |-> scopes,
          nextInst |-> nextInst]
    [] OTHER ->
         [outcome |-> "ok", inst |-> nextInst,
          scopes |-> [scopes EXCEPT ![s].cache = nextInst],
          nextInst |-> nextInst + 1]

Init ==
  /\ nRequests \in 1..MaxRequests
  /\ nBinders \in 0..MaxBinders
  /\ nRequests * nBinders <= MaxInvocations
  /\ provider \in {"provider", "null"}
  /\ disposeAsync \in BOOLEAN
  /\ disposedResolves \in BOOLEAN
  /\ st = [r \in AllRequests |-> [k \in Positions |-> "idle"]]
  /\ scopeVar = [r \in AllRequests |-> [k \in Positions |-> NoScope]]
  /\ slot = [r \in AllRequests |-> Absent]
  /\ last = [r \in AllRequests |-> NoCall]
  /\ got = [r \in AllRequests |-> <<>>]
  /\ scopes = <<>>
  /\ nextInst = 1

\* Hono's compose: element 1 is called when the request arrives, element
\* k + 1 when element k calls next().
Dispatched(r, k) ==
  /\ r \in Requests
  /\ st[r][k] = "idle"
  /\ IF k = 1 THEN TRUE ELSE st[r][k - 1] = "running"

\* ---- injectServices ------------------------------------------------------
\* HandlerEnter with the dispose call ahead of next() instead of in finally.
HandlerEnterDisposeEarly(r, k) ==
  /\ k \in Binders
  /\ Dispatched(r, k)
  /\ provider # "null"
  /\ scopes' = Append(scopes, [NewScope(r, k) EXCEPT !.disposeCalls = 1,
                                                    !.state = "disposed"])
  /\ scopeVar' = [scopeVar EXCEPT ![r][k] = Len(scopes')]
  /\ slot' = [slot EXCEPT ![r] = Scope(Len(scopes'))]
  /\ st' = [st EXCEPT ![r][k] = "running"]
  /\ UNCHANGED <<config, last, got, nextInst>>

\* HandlerEnter with createScope hoisted out of the handler: every
\* invocation publishes the one scope made first.
HandlerEnterSharedScope(r, k) ==
  /\ k \in Binders
  /\ Dispatched(r, k)
  /\ provider # "null"
  /\ scopes' = IF scopes = <<>> THEN createScope(r, k) ELSE scopes
  /\ scopeVar' = [scopeVar EXCEPT ![r][k] = 1]
  /\ slot' = [slot EXCEPT ![r] = Scope(1)]
  /\ st' = [st EXCEPT ![r][k] = "running"]
  /\ UNCHANGED <<config, last, got, nextInst>>

\* HandlerEnter without the c.set call.
HandlerEnterNoSet(r, k) ==
  /\ k \in Binders
  /\ Dispatched(r, k)
  /\ provider # "null"
  /\ scopes' = createScope(r, k)
  /\ scopeVar' = [scopeVar EXCEPT ![r][k] = Len(scopes')]
  /\ st' = [st EXCEPT ![r][k] = "running"]
  /\ UNCHANGED <<config, slot, last, got, nextInst>>

\* HandlerEnter with the failure of createScope caught: the handler goes on
\* to next() without a scope.
HandlerEnterIgnoresCreateFailure(r, k) ==
  /\ k \in Binders
  /\ Dispatched(r, k)
  /\ provider # "null"
  /\ \E fails \in BOOLEAN :
       IF fails
       THEN /\ st' = [st EXCEPT ![r][k] = "running"]
            /\ UNCHANGED <<scopeVar, slot, scopes>>
       ELSE /\ scopes' = createScope(r, k)
            /\ scopeVar' = [scopeVar EXCEPT ![r][k] = Len(scopes')]
            /\ slot' = [slot EXCEPT ![r] = Scope(Len(scopes'))]
            /\ st' = [st EXCEPT ![r][k] = "running"]
  /\ UNCHANGED <<config, last, got, nextInst>>

\* The handler up to its await: createScope, c.set, next().
HandlerEnter(r, k) ==
  /\ k \in Binders
  /\ Dispatched(r, k)
  /\ \E fails \in BOOLEAN :
       IF provider = "null"
       THEN /\ st' = [st EXCEPT ![r][k] = NullProviderError]
            /\ UNCHANGED <<scopeVar, slot, scopes>>
       ELSE IF fails
       THEN /\ st' = [st EXCEPT ![r][k] = CreateScopeError]
            /\ UNCHANGED <<scopeVar, slot, scopes>>
       ELSE /\ scopes' = createScope(r, k)
            /\ scopeVar' = [scopeVar EXCEPT ![r][k] = Len(scopes')]
            /\ slot' = [slot EXCEPT ![r] = Scope(Len(scopes'))]
            /\ st' = [st EXCEPT ![r][k] = "running"]
  /\ UNCHANGED <<config, last, got, nextInst>>

\* scope.dispose() as the handler calls it: a synchronous dispose has run to
\* its end or thrown when the call returns, an asynchronous one has only
\* started and handed back its promise.
dispose(s, throws) ==
  [scopes EXCEPT ![s].disposeCalls = @ + 1,
                 ![s].state = IF disposeAsync THEN "disposing"
                              ELSE IF throws THEN "failed" ELSE "disposed"]

\* HandlerFinally with the dispose call after the await instead of in a
\* finally block: a failed continuation skips it.
HandlerNoFinally(r, k) ==
  /\ k \in Binders
  /\ st[r][k] = "running"
  /\ st[r][k + 1] \in Settled
  /\ \E throws \in BOOLEAN :
       IF st[r][k + 1] = "ok"
       THEN /\ scopes' = dispose(scopeVar[r][k], throws)
            /\ st' = [st EXCEPT ![r][k] =
                        IF throws /\ ~disposeAsync THEN DisposeError ELSE "ok"]
       ELSE /\ scopes' = scopes
            /\ st' = [st EXCEPT ![r][k] = st[r][k + 1]]
  /\ UNCHANGED <<config, scopeVar, slot, last, got, nextInst>>

\* HandlerFinally with scope kept in a variable all invocations share: it
\* disposes the scope created last.
HandlerFinallySharedVariable(r, k) ==
  /\ k \in Binders
  /\ st[r][k] = "running"
  /\ st[r][k + 1] \in Settled
  /\ \E throws \in BOOLEAN :
       /\ scopes' = dispose(Len(scopes), throws)
       /\ st' = [st EXCEPT ![r][k] =
                   IF throws /\ ~disposeAsync THEN DisposeError
                   ELSE st[r][k + 1]]
  /\ UNCHANGED <<config, scopeVar, slot, last, got, nextInst>>

\* HandlerFinally with catch in place of finally: the failure of the
\* continuation is swallowed.
HandlerSwallowsFailure(r, k) ==
  /\ k \in Binders
  /\ st[r][k] = "running"
  /\ st[r][k + 1] \in Settled
  /\ \E throws \in BOOLEAN :
       /\ scopes' = dispose(scopeVar[r][k], throws)
       /\ st' = [st EXCEPT ![r][k] =
                   IF throws /\ ~disposeAsync THEN DisposeError ELSE "ok"]
  /\ UNCHANGED <<config, scopeVar, slot, last, got, nextInst>>

\* HandlerFinally with the failure of dispose caught while a failure of the
\* continuation is in flight: the continuation's failure wins.
HandlerFinallyKeepsOriginal(r, k) ==
  /\ k \in Binders
  /\ st[r][k] = "running"
  /\ st[r][k + 1] \in Settled
  /\ \E throws \in BOOLEAN :
       /\ scopes' = dispose(scopeVar[r][k], throws)
       /\ st' = [st EXCEPT ![r][k] =
                   IF throws /\ ~disposeAsync /\ st[r][k + 1] = "ok"
                   THEN DisposeError
                   ELSE st[r][k + 1]]
  /\ UNCHANGED <<config, scopeVar, slot, last, got, nextInst>>

\* HandlerFinally that also removes the scope from the context.
HandlerFinallyClearsSlot(r, k) ==
  /\ k \in Binders
  /\ st[r][k] = "running"
  /\ st[r][k + 1] \in Settled
  /\ \E throws \in BOOLEAN :
       /\ scopes' = dispose(scopeVar[r][k], throws)
       /\ st' = [st EXCEPT ![r][k] =
                   IF throws /\ ~disposeAsync THEN DisposeError
                   ELSE st[r][k + 1]]
  /\ slot' = [slot EXCEPT ![r] = Absent]
  /\ UNCHANGED <<config, scopeVar, last, got, nextInst>>

\* HandlerFinally disposing what c.get('serviceScope') yields instead of its
\* own const scope.
HandlerFinallyDisposesSlot(r, k) ==
  /\ k \in Binders
  /\ st[r][k] = "running"
  /\ st[r][k + 1] \in Settled
  /\ \E throws \in BOOLEAN :
       /\ scopes' = IF IsServiceScope(slot[r])
                    THEN dispose(slot[r].id, throws)
                    ELSE scopes
       /\ st' = [st EXCEPT ![r][k] =
                   IF ~IsServiceScope(slot[r]) THEN NullProviderError
                   ELSE IF throws /\ ~disposeAsync THEN DisposeError
                   ELSE st[r][k + 1]]
  /\ UNCHANGED <<config, scopeVar, slot, last, got, nextInst>>

\* The handler from the settling of next() on: the finally block, then the
\* handler's own completion.  The promise of an asynchronous dispose is
\* dropped, so only a synchronous throw replaces the continuation's outcome.
HandlerFinally(r, k) ==
  /\ k \in Binders
  /\ st[r][k] = "running"
  /\ st[r][k + 1] \in Settled
  /\ \E throws \in BOOLEAN :
       /\ scopes' = dispose(scopeVar[r][k], throws)
       /\ st' = [st EXCEPT ![r][k] =
                   IF throws /\ ~disposeAsync THEN DisposeError
                   ELSE st[r][k + 1]]
  /\ UNCHANGED <<config, scopeVar, slot, last, got, nextInst>>

\* An asynchronous dispose reaches its end, or fails, some time after the
\* call that started it.
DisposeSettle(s) ==
  /\ s \in 1..Len(scopes)
  /\ scopes[s].state = "disposing"
  /\ \E fails \in BOOLEAN :
       scopes' = [scopes EXCEPT ![s].state =
                    IF fails THEN "failed" ELSE "disposed"]
  /\ UNCHANGED <<config, st, scopeVar, slot, last, got, nextInst>>

\* ---- useService ----------------------------------------------------------
\* useService without the !scope check: undefined reaches the instanceof
\* check.
useServiceNoAbsentCheck(v, id) ==
  IF ~IsServiceScope(v)
  THEN [id |-> id, slot |-> v, ctx |-> v, on |-> 0, outcome |-> NotInstanceError,
        inst |-> 0,
        scopes |-> scopes, nextInst |-> nextInst]
  ELSE LET res == getService(v.id, id) IN
       [id |-> id, slot |-> v, ctx |-> v, on |-> v.id, outcome |-> res.outcome,
        inst |-> res.inst,
        scopes |-> res.scopes, nextInst |-> res.nextInst]

\* useService without the instanceof check: reading serviceProvider.getService
\* of a plain object is a TypeError.
useServiceNoInstanceCheck(v, id) ==
  IF v \in {Absent, Null}
  THEN [id |-> id, slot |-> v, ctx |-> v, on |-> 0, outcome |-> NotFoundError,
        inst |-> 0,
        scopes |-> scopes, nextInst |-> nextInst]
  ELSE IF ~IsServiceScope(v)
  THEN [id |-> id, slot |-> v, ctx |-> v, on |-> 0, outcome |-> NullProviderError,
        inst |-> 0,
        scopes |-> scopes, nextInst |-> nextInst]
  ELSE LET res == getService(v.id, id) IN
       [id |-> id, slot |-> v, ctx |-> v, on |-> v.id, outcome |-> res.outcome,
        inst |-> res.inst,
        scopes |-> res.scopes, nextInst |-> res.nextInst]

\* useService with the provider's failure caught and reported as its own
\* error.
useServiceWrapsError(v, id) ==
  IF v \in {Absent, Null}
  THEN [id |-> id, slot |-> v, ctx |-> v, on |-> 0, outcome |-> NotFoundError,
        inst |-> 0,
        scopes |-> scopes, nextInst |-> nextInst]
  ELSE IF ~IsServiceScope(v)
  THEN [id |-> id, slot |-> v, ctx |-> v, on |-> 0, outcome |-> NotInstanceError,
        inst |-> 0,
        scopes |-> scopes, nextInst |-> nextInst]
  ELSE LET res == getService(v.id, id) IN
       [id |-> id, slot |-> v, ctx |-> v, on |-> v.id,
        outcome |-> IF res.outcome = "ok" THEN "ok" ELSE NotFoundError,
        inst |-> res.inst,
        scopes |-> res.scopes, nextInst |-> res.nextInst]

\* useService resolving from the scope created first instead of the one in
\* the context it was given.
useServiceFirstScope(v, id) ==
  IF v \in {Absent, Null}
  THEN [id |-> id, slot |-> v, ctx |-> v, on |-> 0, outcome |-> NotFoundError,
        inst |-> 0,
        scopes |-> scopes, nextInst |-> nextInst]
  ELSE IF ~IsServiceScope(v)
  THEN [id |-> id, slot |-> v, ctx |-> v, on |-> 0, outcome |-> NotInstanceError,
        inst |-> 0,
        scopes |-> scopes, nextInst |-> nextInst]
  ELSE LET res == getService(1, id) IN
       [id |-> id, slot |-> v, ctx |-> v, on |-> 1, outcome |-> res.outcome,
        inst |-> res.inst,
        scopes |-> res.scopes, nextInst |-> res.nextInst]

\* useService testing scope === undefined instead of !scope.
useServiceStrictUndefined(v, id) ==
  IF v = Absent
  THEN [id |-> id, slot |-> v, ctx |-> v, on |-> 0, outcome |-> NotFoundError,
        inst |-> 0,
        scopes |-> scopes, nextInst |-> nextInst]
  ELSE IF ~IsServiceScope(v)
  THEN [id |-> id, slot |-> v, ctx |-> v, on |-> 0, outcome |-> NotInstanceError,
        inst |-> 0,
        scopes |-> scopes, nextInst |-> nextInst]
  ELSE LET res == getService(v.id, id) IN
       [id |-> id, slot |-> v, ctx |-> v, on |-> v.id, outcome |-> res.outcome,
        inst |-> res.inst,
        scopes |-> res.scopes, nextInst |-> res.nextInst]

\* useService taking the scope out of the context once it has resolved from
\* it.
useServiceConsumesSlot(v, id) ==
  IF v \in {Absent, Null}
  THEN [id |-> id, slot |-> v, ctx |-> v, on |-> 0, outcome |-> NotFoundError,
        inst |-> 0,
        scopes |-> scopes, nextInst |-> nextInst]
  ELSE IF ~IsServiceScope(v)
  THEN [id |-> id, slot |-> v, ctx |-> v, on |-> 0, outcome |-> NotInstanceError,
        inst |-> 0,
        scopes |-> scopes, nextInst |-> nextInst]
  ELSE LET res == getService(v.id, id) IN
       [id |-> id, slot |-> v, ctx |-> Absent, on |-> v.id,
        outcome |-> res.outcome, inst |-> res.inst,
        scopes |-> res.scopes, nextInst |-> res.nextInst]

\* What useService(c, serviceType) does on a context whose slot holds v: the
\* result it hands to the caller, what the slot holds after it (ctx), and
\* the state of the container after it.
useService(v, id) ==
  IF v \in {Absent, Null}
  THEN [id |-> id, slot |-> v, ctx |-> v, on |-> 0, outcome |-> NotFoundError,
        inst |-> 0,
        scopes |-> scopes, nextInst |-> nextInst]
  ELSE IF ~IsServiceScope(v)
  THEN [id |-> id, slot |-> v, ctx |-> v, on |-> 0, outcome |-> NotInstanceError,
        inst |-> 0,
        scopes |-> scopes, nextInst |-> nextInst]
  ELSE LET res == getService(v.id, id) IN
       [id |-> id, slot |-> v, ctx |-> v, on |-> v.id, outcome |-> res.outcome,
        inst |-> res.inst,
        scopes |-> res.scopes, nextInst |-> res.nextInst]

\* ---- the route (application code downstream of the binders) --------------
RouteStart(r) ==
  /\ Dispatched(r, RoutePos)
  /\ st' = [st EXCEPT ![r][RoutePos] = "running"]
  /\ UNCHANGED <<config, scopeVar, slot, last, got, scopes, nextInst>>

\* The route calls useService inside try/catch, as the tests' routes do.
RouteUse(r, id) ==
  /\ st[r][RoutePos] = "running"
  /\ Len(got[r]) < MaxUse
  /\ LET u == useService(slot[r], id) IN
       /\ last' = [last EXCEPT ![r] =
                    [id |-> u.id, slot |-> u.slot, live |-> Live(slot[r]),
                     on |-> u.on, outcome |-> u.outcome, inst |-> u.inst]]
       /\ got' = IF u.outcome = "ok"
                 THEN [got EXCEPT ![r] = Append(@, <<id, u.inst>>)]
                 ELSE got
       /\ slot' = [slot EXCEPT ![r] = u.ctx]
       /\ scopes' = u.scopes
       /\ nextInst' = u.nextInst
  /\ UNCHANGED <<config, st, scopeVar>>

\* The route sets the slot itself: c.set('serviceScope', {} as IServiceScope).
RouteSet(r, v) ==
  /\ st[r][RoutePos] = "running"
  /\ v \in {Null, Obj}
  /\ slot' = [slot EXCEPT ![r] = v]
  /\ UNCHANGED <<config, st, scopeVar, last, got, scopes, nextInst>>

RouteReturn(r) ==
  /\ st[r][RoutePos] = "running"
  /\ st' = [st EXCEPT ![r][RoutePos] = "ok"]
  /\ UNCHANGED <<config, scopeVar, slot, last, got, scopes, nextInst>>

\* The route ends with a failure, its own or one it did not catch.
RouteThrow(r) ==
  /\ st[r][RoutePos] = "running"
  /\ st' = [st EXCEPT ![r][RoutePos] = RouteError]
  /\ UNCHANGED <<config, scopeVar, slot, last, got, scopes, nextInst>>

\* The continuation is abandoned: the route's promise never settles, as when
\* the request is aborted while the route waits.
RouteAbandon(r) ==
  /\ st[r][RoutePos] = "running"
  /\ st' = [st EXCEPT ![r][RoutePos] = "abandoned"]
  /\ UNCHANGED <<config, scopeVar, slot, last, got, scopes, nextInst>>

\* Work the route started and did not wait for calls useService with the
\* request's context after the request has completed.
LateUse(r, id) ==
  /\ r \in Requests
  /\ st[r][1] \in Settled
  /\ Len(got[r]) < MaxUse
  /\ LET u == useService(slot[r], id) IN
       /\ last' = [last EXCEPT ![r] =
                    [id |-> u.id, slot |-> u.slot, live |-> Live(slot[r]),
                     on |-> u.on, outcome |-> u.outcome, inst |-> u.inst]]
       /\ got' = IF u.outcome = "ok"
                 THEN [got EXCEPT ![r] = Append(@, <<id, u.inst>>)]
                 ELSE got
       /\ slot' = [slot EXCEPT ![r] = u.ctx]
       /\ scopes' = u.scopes
       /\ nextInst' = u.nextInst
  /\ UNCHANGED <<config, st, scopeVar>>

Next ==
  \/ \E r \in AllRequests, k \in 1..MaxBinders : HandlerEnter(r, k)
  \/ \E r \in AllRequests, k \in 1..MaxBinders : HandlerFinally(r, k)
  \/ \E s \in 1..MaxInvocations : DisposeSettle(s)
  \/ \E r \in AllRequests : RouteStart(r)
  \/ \E r \in AllRequests, id \in Ids : RouteUse(r, id)
  \/ \E r \in AllRequests, v \in {Null, Obj} : RouteSet(r, v)
  \/ \E r \in AllRequests : RouteReturn(r)
  \/ \E r \in AllRequests : RouteThrow(r)
  \/ \E r \in AllRequests : RouteAbandon(r)
  \/ \E r \in AllRequests, id \in Ids : LateUse(r, id)

Spec == Init /\ [][Next]_vars

TypeOK ==
  /\ nBinders \in 0..MaxBinders
  /\ \A r \in AllRequests : Len(got[r]) <= MaxUse
  /\ Len(scopes) <= MaxInvocations

\* ---- vocabulary of the properties ----------------------------------------
\* Invocation k of request r got a scope from createScope.
Created(r, k) == scopeVar[r][k] # NoScope
\* Invocation k of request r has returned or thrown.
Exited(r, k) == st[r][k] \in Settled
\* The scope of invocation k of request r.
ScopeOf(r, k) == scopes[scopeVar[r][k]]
Undisposed(s) == scopes[s].disposeCalls = 0 /\ scopes[s].state = "active"
ConfigurationErrors == {NotFoundError, NotInstanceError}
Called(r) == last[r].outcome # "none"

\* ---- C1 ------------------------------------------------------------------
\* C1: for every invocation of the handler in which createScope succeeded,
\* dispose has been called exactly once on the created scope by the time the
\* invocation exits, whether next() completed or failed, and it is never
\* called twice on any scope.
C1_DisposedExactlyOnce ==
  /\ \A s \in 1..Len(scopes) : scopes[s].disposeCalls <= 1
  /\ \A r \in Requests, k \in Binders :
       Created(r, k) /\ Exited(r, k) => ScopeOf(r, k).disposeCalls = 1

\* An invocation left with the failure of its continuation, its scope
\* disposed once.
C1_Witness ==
  \E r \in Requests, k \in Binders :
    /\ Created(r, k)
    /\ st[r][k] = RouteError
    /\ ScopeOf(r, k).disposeCalls = 1

\* ---- C2 ------------------------------------------------------------------
\* The ordering of one invocation: the continuation has not started before
\* the scope exists, and dispose is not called before the continuation has
\* settled.
CreatedBeforeDownstream(r, k) == st[r][k + 1] # "idle" => Created(r, k)
DisposedAfterDownstream(r, k) ==
  Created(r, k) /\ st[r][k + 1] \in {"idle", "running"}
    => Undisposed(scopeVar[r][k])

\* C2 as stated: the ordering, and at every step at which downstream code of
\* the request is running the slot holds a scope the binder has not disposed.
C2_SlotAlwaysHoldsLiveScope ==
  \A r \in Requests, k \in Binders :
    /\ CreatedBeforeDownstream(r, k)
    /\ DisposedAfterDownstream(r, k)
    /\ st[r][k + 1] = "running"
         => IsServiceScope(slot[r]) /\ Undisposed(slot[r].id)

\* The slot of r holds what code downstream of invocation k put there: a
\* value the route set, or the scope of a handler further down the chain.
OverwrittenDownstream(r, k) ==
  \/ slot[r] \in {Null, Obj}
  \/ /\ IsServiceScope(slot[r])
     /\ scopes[slot[r].id].owner[1] = r
     /\ scopes[slot[r].id].owner[2] > k

\* C2 as amended: the ordering, and at every step at which downstream code of
\* the request is running the scope the binder created is not disposed and
\* the slot holds it, unless downstream code has overwritten the slot.
C2_Ordering ==
  \A r \in Requests, k \in Binders :
    /\ CreatedBeforeDownstream(r, k)
    /\ DisposedAfterDownstream(r, k)
    /\ st[r][k + 1] = "running"
         => \/ slot[r] = Scope(scopeVar[r][k]) /\ Undisposed(slot[r].id)
            \/ OverwrittenDownstream(r, k)

\* The route runs under a binder and has resolved a service from the scope
\* in the slot.
C2_Witness ==
  \E r \in Requests :
    /\ nBinders >= 1
    /\ st[r][RoutePos] = "running"
    /\ IsServiceScope(slot[r])
    /\ last[r].outcome = "ok"

\* ---- C3 ------------------------------------------------------------------
\* C3: useService on a context whose slot was never written fails with the
\* error 'scope not found' and does not call getService on any provider.
C3_AbsentSlotNotFound ==
  \A r \in Requests :
    Called(r) /\ last[r].slot = Absent
      => last[r].outcome = NotFoundError /\ last[r].on = 0

C3_Witness ==
  \E r \in Requests :
    /\ nBinders = 0
    /\ last[r].slot = Absent
    /\ last[r].outcome = NotFoundError

\* ---- C4 ------------------------------------------------------------------
\* C4: useService on a context whose slot holds a value that is not a
\* ServiceScope fails with a configuration error and does not call
\* getService on any provider.
C4_NonScopeConfigurationError ==
  \A r \in Requests :
    Called(r) /\ last[r].slot \in {Null, Obj}
      => last[r].outcome \in ConfigurationErrors /\ last[r].on = 0

\* The plain object of the test, rejected by the instanceof check.
C4_Witness ==
  \E r \in Requests :
    /\ last[r].slot = Obj
    /\ last[r].outcome = NotInstanceError

\* ---- C5 ------------------------------------------------------------------
\* C5: with a valid scope in the slot and an identifier that is not registered,
\* useService fails with the error of the provider, as the provider raised
\* it, and not with a configuration error.
C5_ResolutionErrorPropagates ==
  \A r \in Requests :
    /\ Called(r)
    /\ last[r].slot.kind = "scope" /\ last[r].live
    /\ Lifetime(last[r].id) = "unregistered"
    => /\ last[r].outcome = ResolutionError
       /\ last[r].on = last[r].slot.id

C5_Witness ==
  \E r \in Requests :
    /\ last[r].slot.kind = "scope"
    /\ last[r].id = "U"
    /\ last[r].outcome = ResolutionError

\* ---- C6 ------------------------------------------------------------------
\* C6: with a valid scope in the slot and a registered identifier, useService
\* returns what getService of the provider of that scope returns: the call
\* goes to the scope in the slot of the caller's context, which is a scope
\* of the caller's request, and the instance returned is the one that scope
\* holds for the identifier.
C6_ResolvesFromSlotScope ==
  \A r \in Requests :
    /\ Called(r)
    /\ last[r].slot.kind = "scope" /\ last[r].live
    /\ Lifetime(last[r].id) # "unregistered"
    => /\ last[r].outcome = "ok"
       /\ last[r].on = last[r].slot.id
       /\ scopes[last[r].on].owner[1] = r
       /\ Lifetime(last[r].id) = "scoped"
            => last[r].inst = scopes[last[r].on].cache

\* Two requests have each resolved the registered identifier.
C6_Witness ==
  /\ nRequests >= 2
  /\ \A r \in Requests : last[r].id = "S" /\ last[r].outcome = "ok"

\* ---- C7 ------------------------------------------------------------------
\* C7: every invocation gets a scope of its own, two resolutions of a scoped
\* identifier in one request yield the same instance, and resolutions of it
\* in two requests yield distinct instances.
C7_ScopedIsRequestLocal ==
  /\ \A r1, r2 \in Requests, k1, k2 \in Binders :
       /\ Created(r1, k1) /\ Created(r2, k2)
       /\ <<r1, k1>> # <<r2, k2>>
       => scopeVar[r1][k1] # scopeVar[r2][k2]
  /\ \A r \in Requests : \A i, j \in DOMAIN got[r] :
       got[r][i][1] = got[r][j][1] /\ Lifetime(got[r][i][1]) = "scoped"
         => got[r][i][2] = got[r][j][2]
  /\ \A r1, r2 \in Requests : \A i \in DOMAIN got[r1], j \in DOMAIN got[r2] :
       r1 # r2 /\ got[r1][i][1] = got[r2][j][1]
               /\ Lifetime(got[r1][i][1]) = "scoped"
         => got[r1][i][2] # got[r2][j][2]

\* Two requests have each resolved the scoped identifier twice.
C7_Witness ==
  /\ nRequests >= 2
  /\ \A r \in Requests : Len(got[r]) = 2 /\ got[r][1][1] = "S"
                                         /\ got[r][2][1] = "S"

\* ---- C8 ------------------------------------------------------------------
\* No slot holds a scope of another request, and no scope is disposed while
\* code downstream of the invocation that created it is running.
NoSharedScope ==
  /\ \A r \in Requests :
       IsServiceScope(slot[r]) => scopes[slot[r].id].owner[1] = r
  /\ \A r \in Requests, k \in Binders :
       Created(r, k) /\ st[r][k + 1] = "running"
         => Undisposed(scopeVar[r][k])

\* A step that calls dispose on a scope is the completion of the invocation
\* that created the scope.
DisposesOnlyOwn ==
  \A s \in 1..Len(scopes) :
    scopes'[s].disposeCalls # scopes[s].disposeCalls
      => LET r == scopes[s].owner[1]
             k == scopes[s].owner[2] IN
         /\ scopeVar[r][k] = s
         /\ st[r][k] = "running"
         /\ st[r][k + 1] \in Settled
         /\ st'[r][k] \in Settled

\* C8: under every interleaving of the requests, the slot of a request never
\* holds the scope of another one, the completion of a request disposes
\* only that request's scope, and so the scope of a request is never
\* disposed while its downstream handlers are running.
C8_NoCrossRequestSharing == []NoSharedScope /\ [][DisposesOnlyOwn]_vars

\* One request has completed and disposed its scope while the route of
\* another one is still running on its own scope.
C8_Witness ==
  \E a, b \in Requests :
    /\ a # b
    /\ Created(a, 1) /\ Exited(a, 1) /\ ScopeOf(a, 1).disposeCalls = 1
    /\ Created(b, 1) /\ st[b][RoutePos] = "running"
    /\ last[b].outcome = "ok"

\* ---- C9 ------------------------------------------------------------------
Entered == {i \in Requests \X Binders : st[i[1]][i[2]] # "idle"}
WithScope == {i \in Requests \X Binders : Created(i[1], i[2])}

\* C9 as stated: the scopes created are as many as the invocations of the
\* handler, and no request has more than one.
C9_ScopesEqualInvocations ==
  /\ Len(scopes) = Cardinality(Entered)
  /\ \A r \in Requests :
       Cardinality({s \in 1..Len(scopes) : scopes[s].owner[1] = r}) <= 1

\* Each scope belongs to the one invocation that holds it, the invocations
\* without a scope are those whose createScope call failed, and nothing is
\* created before a handler is invoked.
OneScopePerInvocation ==
  /\ Len(scopes) = Cardinality(WithScope)
  /\ \A s \in 1..Len(scopes) :
       scopes[s].owner \in WithScope
         /\ scopeVar[scopes[s].owner[1]][scopes[s].owner[2]] = s
  /\ \A i \in Entered \ WithScope :
       st[i[1]][i[2]] \in {CreateScopeError, NullProviderError}

\* The step that invokes a handler creates one scope and writes it into the
\* slot of that request's context, whatever the slot held, or fails in
\* createScope and leaves scopes and slot as they were.
EnterCreatesAndPublishes ==
  \A r \in Requests, k \in Binders :
    st[r][k] = "idle" /\ st'[r][k] # "idle"
      => \/ /\ Len(scopes') = Len(scopes) + 1
            /\ scopeVar'[r][k] = Len(scopes')
            /\ slot'[r] = Scope(Len(scopes'))
         \/ /\ st'[r][k] \in {CreateScopeError, NullProviderError}
            /\ scopes' = scopes
            /\ slot' = slot

\* C9 as amended: each invocation of the handler whose createScope call
\* succeeds creates exactly one scope and writes it into the slot under
\* 'serviceScope', overwriting any prior value; building the handler creates
\* no scope; so the scopes created are as many as the invocations whose
\* createScope call succeeded, one per invocation.
C9_OneScopePerInvocation ==
  []OneScopePerInvocation /\ [][EnterCreatesAndPublishes]_vars

\* A second handler in the chain has overwritten the scope the first one
\* published.
C9_Witness ==
  \E r \in Requests :
    /\ Created(r, 1) /\ Created(r, 2)
    /\ scopeVar[r][1] # scopeVar[r][2]
    /\ slot[r] = Scope(scopeVar[r][2])

C11_DisposeFailurePropagates ==
  \A r \in Requests, k \in Binders :
    Created(r, k) /\ Exited(r, k) /\ ScopeOf(r, k).state = "failed"
      => st[r][k] = DisposeError

\* ---- C12 -----------------------------------------------------------------
\* Nothing more happens in the chain of request r: its first handler has
\* exited, or its continuation has been abandoned.
RequestOver(r) ==
  st[r][1] \in Settled \/ st[r][RoutePos] = "abandoned"

\* C12: every scope a handler invocation created is disposed in the end,
\* also when the continuation is abandoned: once the chain of a request can
\* take no further step, dispose has been called on each of its scopes.
C12_DisposedWhenRequestOver ==
  \A r \in Requests, k \in Binders :
    Created(r, k) /\ RequestOver(r) => ScopeOf(r, k).disposeCalls >= 1

\* ---- C13 -----------------------------------------------------------------
\* C13: injectServices throws when its argument is null or undefined, so no
\* handler built from such an argument is ever invoked.
C13_NullProviderRejected ==
  provider = "null" => \A r \in Requests, k \in Binders : st[r][k] = "idle"

\* ---- C14 -----------------------------------------------------------------
\* C14 as stated: 'not found' exactly when nothing was written to the slot,
\* 'not an instance' for every written value that is no scope.
C14_NotFoundIffAbsent ==
  \A r \in Requests :
    Called(r)
      => /\ last[r].outcome = NotFoundError <=> last[r].slot = Absent
         /\ last[r].slot \in {Null, Obj} => last[r].outcome = NotInstanceError

\* C14 as amended: 'not found' exactly when the slot is absent or holds a
\* falsy value, 'not an instance' exactly when it holds a truthy value that
\* is no ServiceScope.
C14_NotFoundIffFalsy ==
  \A r \in Requests :
    Called(r)
      => /\ last[r].outcome = NotFoundError <=> last[r].slot \in {Absent, Null}
         /\ last[r].outcome = NotInstanceError <=> last[r].slot = Obj

\* A falsy value was written to the slot and useService reported the scope
\* as not found.
C14_Witness ==
  \E r \in Requests :
    last[r].slot = Null /\ last[r].outcome = NotFoundError

\* ---- C15 -----------------------------------------------------------------
\* The step is a useService call made with the context of r.
UseServiceStep(r) == last'[r] # last[r] \/ got'[r] # got[r]

\* A useService call leaves every slot, every handler and the disposal
\* state of every scope as they were.
UseServiceFrame(r) ==
  UseServiceStep(r)
    => /\ slot' = slot
       /\ st' = st
       /\ scopeVar' = scopeVar
       /\ Len(scopes') = Len(scopes)
       /\ \A s \in 1..Len(scopes) :
            /\ scopes'[s].disposeCalls = scopes[s].disposeCalls
            /\ scopes'[s].state = scopes[s].state

\* The step is a handler of r publishing the scope it created.
BinderWrites(r) ==
  \E k \in Binders :
    /\ st[r][k] = "idle" /\ st'[r][k] = "running"
    /\ slot'[r] = Scope(scopeVar'[r][k])

\* The step is the route of r setting the slot itself.
RouteWrites(r) ==
  /\ st[r][RoutePos] = "running"
  /\ ~UseServiceStep(r)
  /\ st' = st /\ scopes' = scopes

\* C15 as stated: useService changes neither slot nor lifecycle, and every
\* write of a slot is the binder's.
C15_OnlyBinderWrites ==
  [][\A r \in Requests :
       /\ UseServiceFrame(r)
       /\ slot'[r] # slot[r] => BinderWrites(r)]_vars

\* C15 as amended: useService changes neither slot nor lifecycle; a write of
\* a slot is the binder's or the application's own c.set, never
\* useService's.
C15_UseServiceOnlyReads ==
  [][\A r \in Requests :
       /\ UseServiceFrame(r)
       /\ slot'[r] # slot[r] => BinderWrites(r) \/ RouteWrites(r)]_vars

\* useService has succeeded and then failed in a request whose slot still
\* holds the scope it read, undisposed.
C15_Witness ==
  \E r \in Requests :
    /\ got[r] # <<>>
    /\ last[r].outcome = ResolutionError
    /\ slot[r] = last[r].slot
    /\ Live(slot[r])

\* ---- C16 -----------------------------------------------------------------
\* A handler whose continuation failed fails too, with the continuation's
\* failure when dispose did not throw, and its scope has been disposed.
NoSilentRecovery ==
  \A r \in Requests, k \in Binders :
    Created(r, k) /\ Exited(r, k) /\ st[r][k + 1] \in Errors
      => /\ st[r][k] \in Errors
         /\ ScopeOf(r, k).disposeCalls = 1
         /\ disposeAsync \/ ScopeOf(r, k).state # "failed"
              => st[r][k] = st[r][k + 1]

\* A continuation that has settled is not started again.
NoRetry ==
  \A r \in Requests, k \in Binders :
    st[r][k + 1] \in Settled => st'[r][k + 1] = st[r][k + 1]

\* C16: when the continuation fails and disposal succeeds, the handler fails
\* with the continuation's failure, unchanged, after disposing the scope; a
\* failure never becomes a normal completion and next() is not called again.
C16_NoSilentRecovery == []NoSilentRecovery /\ [][NoRetry]_vars

\* The route threw, the scope was disposed, and the handler failed with the
\* route's failure.
C16_Witness ==
  \E r \in Requests :
    /\ nBinders >= 1
    /\ st[r][RoutePos] = RouteError
    /\ st[r][nBinders] = RouteError
    /\ ScopeOf(r, nBinders).state = "disposed"

\* ---- C17 -----------------------------------------------------------------
\* C17: when the continuation fails and the synchronous dispose throws in
\* the same invocation, the invocation fails with the failure of dispose.
C17_DisposeFailureMasks ==
  \A r \in Requests, k \in Binders :
    /\ Created(r, k) /\ Exited(r, k)
    /\ st[r][k + 1] \in Errors
    /\ ~disposeAsync /\ ScopeOf(r, k).state = "failed"
    => st[r][k] = DisposeError

\* The route threw, dispose threw, and the handler failed with the failure
\* of dispose.
C17_Witness ==
  \E r \in Requests :
    /\ nBinders >= 1
    /\ st[r][RoutePos] = RouteError
    /\ ScopeOf(r, nBinders).state = "failed" /\ ~disposeAsync
    /\ st[r][nBinders] = DisposeError

\* ---- C18 -----------------------------------------------------------------
\* A step that calls dispose leaves every slot as it was.
DisposeKeepsSlot ==
  (\E s \in 1..Len(scopes) :
     scopes'[s].disposeCalls # scopes[s].disposeCalls) => slot' = slot

\* A useService call that found in the slot a scope on which dispose had
\* been called reported no configuration error and called getService on the
\* provider of that scope.
LateCallDelegates ==
  \A r \in Requests :
    Called(r) /\ last[r].slot.kind = "scope" /\ ~last[r].live
      => /\ last[r].outcome \notin ConfigurationErrors
         /\ last[r].on = last[r].slot.id

\* C18: the binder does not clear or replace the slot when it disposes, so
\* after the handler has finished the slot still holds the scope, and a
\* useService call made then raises no configuration error and delegates to
\* the provider of the disposed scope.
C18_SlotKeptAfterDispose == [][DisposeKeepsSlot]_vars /\ []LateCallDelegates

\* The request is over, its slot holds the scope its handler disposed, and
\* a later useService call was passed on to that scope.
C18_Witness ==
  \E r \in Requests :
    /\ nBinders = 1
    /\ Exited(r, 1) /\ Created(r, 1)
    /\ slot[r] = Scope(scopeVar[r][1])
    /\ ScopeOf(r, 1).disposeCalls = 1
    /\ last[r].slot = slot[r] /\ ~last[r].live
    /\ last[r].on = scopeVar[r][1]

\* ---- C19 -----------------------------------------------------------------
\* C19: whatever the slot holds, dispose has been called once on a scope if
\* the invocation that created it has exited and not at all otherwise, and
\* of two nested invocations the inner one disposes first.
C19_DisposesOwnScope ==
  /\ \A s \in 1..Len(scopes) :
       scopes[s].disposeCalls =
         IF Exited(scopes[s].owner[1], scopes[s].owner[2]) THEN 1 ELSE 0
  /\ \A r \in Requests, k \in Binders :
       /\ k + 1 \in Binders
       /\ Created(r, k) /\ Created(r, k + 1)
       /\ ScopeOf(r, k).disposeCalls >= 1
       => ScopeOf(r, k + 1).disposeCalls >= 1

\* The route overwrote the slot under two nested handlers, and each of them
\* has disposed its own scope.
C19_Witness ==
  \E r \in Requests :
    /\ Created(r, 1) /\ Created(r, 2)
    /\ slot[r] = Obj
    /\ ScopeOf(r, 1).disposeCalls = 1
    /\ ScopeOf(r, 2).disposeCalls = 1

\* ---- C20 -----------------------------------------------------------------
\* C20: an invocation whose createScope call failed has failed with that
\* error, its continuation has not been invoked, the slot holds what it held
\* before, and no scope exists on which it could call dispose.
C20_CreateScopeFailure ==
  \A r \in Requests, k \in Binders :
    st[r][k] # "idle" /\ ~Created(r, k)
      => /\ st[r][k] = IF provider = "null" THEN NullProviderError
                       ELSE CreateScopeError
         /\ st[r][k + 1] = "idle"
         /\ slot[r] = IF k = 1 THEN Absent ELSE Scope(scopeVar[r][k - 1])
         /\ \A s \in 1..Len(scopes) : scopes[s].owner # <<r, k>>

\* createScope failed in the second handler of a chain: the slot still holds
\* the scope of the first one and the route was never started.
C20_Witness ==
  \E r \in Requests :
    /\ Created(r, 1) /\ ~Created(r, 2)
    /\ st[r][2] = CreateScopeError
    /\ slot[r] = Scope(scopeVar[r][1])
    /\ st[r][3] = "idle"
====
